---- MODULE Spec2Model ----
(***************************************************************************)
(* A model of the local MCP bridge: the circuit breaker and the retry      *)
(* helper of utils/retry.ts (src/unnamed/part_006), the stdio/SSE bridge    *)
(* session of src/unnamed/part_002, the ConnectionPool of                  *)
(* src/src/utils/connection-pool.ts and the GracefulShutdown of            *)
(* src/src/utils/shutdown.ts with the cleanup callback of src/src/index.ts. *)
(*                                                                         *)
(* The module holds several state machines over one list of variables.     *)
(*   SpecBreaker  one CircuitBreaker object and its concurrent callers     *)
(*   SpecRetry    one call of retry(fn, options)                           *)
(*   Spec         the bridge: sessions, child processes, pending requests  *)
(*   SpecTimers   Spec with every armed request timer eventually firing    *)
(*   SpecPool     one ConnectionPool, its sweep and its cleanups            *)
(*   SpecShutdown the GracefulShutdown coordinator and its cleanup callback *)
(* Each specification moves its own variables and leaves the others at     *)
(* their initial values.                                                   *)
(***************************************************************************)
EXTENDS Integers, Sequences, FiniteSets, TLC

VARIABLES
  \* ---- CircuitBreaker (part_006:37-47) ----
  cbState,               \* this.state
  failures,              \* this.failures
  lastFailureTime,       \* this.lastFailureTime
  consecutiveSuccesses,  \* this.consecutiveSuccesses
  failureThreshold,      \* constructor argument
  resetTimeout,          \* constructor argument
  halfOpenSuccessThreshold, \* constructor argument
  now,                   \* Date.now()
  calls,                 \* the execute() calls of the concurrent callers
  cbPrev,                \* history: state and counters just before the last state change
  consecFail,            \* history: failures recorded since the last recorded success
  \* ---- one call of retry(fn, options) (part_006:114-181) ----
  rOpts,                 \* the options: maxAttempts, maxDelay, jitter, timeout, retryOn
  rPc,                   \* where the call is: ready, awaiting, backoff, returned, threw
  rAttempt,              \* the loop variable attempt
  rLastError,            \* lastError
  rOutcome,              \* what the caller got: the value returned or the error thrown
  rInvocations,          \* history: how many times fn was invoked
  rHist,                 \* history: how each attempt ended
  rDelays,               \* history: the backoff delays waited, in order
  rElapsed,              \* history: time since retry was called
  \* ---- the bridge (part_002) ----
  sessions,              \* the keys of the sessions Map
  proc,                  \* per session: the child process (state, killed flag)
  stream,                \* per session: the SSE response and its two intervals
  pendingRequests,       \* per session: message id -> pending slot (0: no entry)
  messageQueue,          \* per session: messages waiting for the next drain
  delivered,             \* per session: message events written to the client
  stdinWrites,           \* per session: lines written to the process's stdin
  slots,                 \* every pending slot ever registered, with its timer
  emitted,               \* lines the processes have written to stdout so far
  written,               \* history: those lines, in order (session and id)
  httpStatus,            \* status of the last HTTP response
  kills,                 \* history: per session, calls of proc.kill
  tornDown,              \* history: per session, whether a teardown trigger fired
  tornAt,                \* history: per session, the value of emitted when the first one fired
  gatewayUp,             \* whether the gateway process itself is running
  \* ---- ConnectionPool (connection-pool.ts) ----
  pool,                  \* this.sessions: id -> session, or NoSession
  poolStats,             \* this.stats
  poolNow,               \* Date.now()
  cleanupInterval,       \* whether this.cleanupInterval is set
  cleaning,              \* per id and caller: cleanupSession calls awaiting session.cleanup()
  returned,              \* what the last cleanupSession call of a client returned
  poolShutdown,          \* the call of shutdown(): where it is, and its counts
  \* ---- GracefulShutdown (shutdown.ts) and its callback (index.ts:353-377) ----
  isShuttingDown,        \* this.isShuttingDown
  listening,             \* whether the HTTP server accepts connections
  deadlineTimer,         \* the timer of line 57: unset, armed or fired
  connections,           \* this.connections
  destroyed,             \* history: the connections the timer destroyed
  gwSessions,            \* the sessions the callback loops over, in order
  cleanupPc,             \* where the callback is: the session and the close it awaits
  cleanupInvocations,    \* history: calls of the cleanup callback
  triggers,              \* history: signals and fatal errors received
  firstCause,            \* history: the trigger that started the shutdown
  exitStatus,            \* the status process.exit was called with (-1: not called)
  \* ---- the stdout reader of one session (part_002:88-114) ----
  stdoutBytes,           \* history: the bytes the process writes to stdout
  unread,                \* the bytes no 'data' event has delivered yet
  buffer,                \* the variable buffer of line 89
  parsed                 \* history: the messages JSON.parse returned, in order

cbVars == <<cbState, failures, lastFailureTime, consecutiveSuccesses,
            failureThreshold, resetTimeout, halfOpenSuccessThreshold,
            now, calls, cbPrev, consecFail>>

retryVars == <<rOpts, rPc, rAttempt, rLastError, rOutcome, rInvocations,
               rHist, rDelays, rElapsed>>

bridgeVars == <<sessions, proc, stream, pendingRequests, messageQueue, delivered,
                stdinWrites, slots, emitted, written, httpStatus, kills, tornDown,
                tornAt>>

poolVars == <<pool, poolStats, poolNow, cleanupInterval, cleaning, returned,
              poolShutdown>>

shutdownVars == <<isShuttingDown, listening, deadlineTimer, connections, destroyed,
                  gwSessions, cleanupPc, cleanupInvocations, triggers, firstCause,
                  exitStatus>>

readerVars == <<stdoutBytes, unread, buffer, parsed>>

vars == <<cbVars, retryVars, bridgeVars, gatewayUp, poolVars, shutdownVars, readerVars>>

\* What each machine leaves alone.
exceptBreaker == <<retryVars, bridgeVars, gatewayUp, poolVars, shutdownVars, readerVars>>
exceptRetry == <<cbVars, bridgeVars, gatewayUp, poolVars, shutdownVars, readerVars>>
exceptBridge == <<cbVars, retryVars, gatewayUp, poolVars, shutdownVars, readerVars>>
exceptPool == <<cbVars, retryVars, bridgeVars, gatewayUp, shutdownVars, readerVars>>
exceptShutdown == <<cbVars, retryVars, bridgeVars, gatewayUp, poolVars, readerVars>>
exceptReader == <<cbVars, retryVars, bridgeVars, gatewayUp, poolVars, shutdownVars>>
exceptGateway == <<cbVars, retryVars, poolVars, shutdownVars, readerVars>>

(***************************************************************************)
(* Bounds of the model.                                                    *)
(***************************************************************************)
MaxTime == 4        \* the clock stops advancing here
MaxFailures == 4    \* no failure is recorded beyond this count
MaxThreshold == 2   \* thresholds are drawn from 1..MaxThreshold
MaxAttempts == 3    \* maxAttempts is drawn from 1..MaxAttempts
MaxPosts == 2       \* POSTed messages that register a pending slot
MaxLines == 2       \* lines the processes write to stdout
MaxAdds == 2        \* calls of addSession
MaxPoolTime == 2    \* the clock of the pool stops advancing here
MaxCleanups == 2    \* cleanupSession calls waiting for their cleanup at one time
MaxGwSessions == 2  \* sessions open when the shutdown starts
MaxTriggers == 3    \* termination signals and fatal errors received
MaxBytes == 5       \* bytes the process writes to stdout

CallIds == {"c1", "c2"}


(***************************************************************************)
(* The bridge: GET /sse, POST /sse and the handlers of one session         *)
(***************************************************************************)

SessionIds == {"s1"}
AllSessionIds == SessionIds \cup {"s2"}   \* with the session of a second client
MsgIds == {"a", "b"}     \* JSON-RPC ids the client uses
NoId == "undefined"      \* message.id of a notification
Junk == "non-JSON"       \* a stdout line JSON.parse throws on
Null == "null"           \* the stdout line null: JSON.parse returns null and
                         \* message.id of line 102 throws inside the try block

\* The command parameter of GET /sse: absent, in config.allowedCommands, or not.
NoCommand == "undefined"
Commands == {NoCommand, "node", "rm"}
AllowedCommands == {"node"}

NoProc == [state |-> "none", killed |-> FALSE, errored |-> FALSE]

\* A pending slot (lines 179-194): the closures resolve/reject and their timer.
\* resolved, rejected and timedOut count the calls of resolve, of reject and of
\* the timer callback; atTeardown marks a slot that was in the map when the first
\* teardown trigger of its session fired; got is the number of the line that
\* resolve was called with (0: none).
NewSlot(s, id) ==
  [sid |-> s, id |-> id, timer |-> TRUE,
   resolved |-> 0, rejected |-> 0, timedOut |-> 0, atTeardown |-> FALSE,
   got |-> 0]

\* The slots that are values of the session's pendingRequests Map.
InMap(s) == {pendingRequests[s][i] : i \in MsgIds} \ {0}

BridgeStart ==
  /\ sessions = {}
  /\ proc = [s \in AllSessionIds |-> NoProc]
  /\ stream = [s \in AllSessionIds |-> "none"]
  /\ pendingRequests = [s \in AllSessionIds |-> [i \in MsgIds |-> 0]]
  /\ messageQueue = [s \in AllSessionIds |-> <<>>]
  /\ delivered = [s \in AllSessionIds |-> <<>>]
  /\ stdinWrites = [s \in AllSessionIds |-> 0]
  /\ slots = <<>>
  /\ emitted = 0
  /\ written = <<>>
  /\ httpStatus = 0
  /\ kills = [s \in AllSessionIds |-> 0]
  /\ tornDown = [s \in AllSessionIds |-> FALSE]
  /\ tornAt = [s \in AllSessionIds |-> 0]
  /\ gatewayUp = TRUE

(***************************************************************************)
(* ConnectionPool                                                          *)
(***************************************************************************)

PoolIds == {"p1", "p2"}
SessionTypes == {"bridge", "agent"}
Callers == {"client", "sweep", "shutdown"}

\* env.SESSION_TIMEOUT, in ticks of the model's clock.
SessionTimeout == 1

NoSession == [present |-> FALSE, type |-> "bridge", lastActivity |-> 0, cleanups |-> 0]

\* A session as addSession builds it (lines 32-40); cleanups counts the
\* invocations of its cleanup callback.
NewSession(type, t) == [present |-> TRUE, type |-> type, lastActivity |-> t, cleanups |-> 0]

\* this.sessions.size
PoolSize(p) == Cardinality({id \in PoolIds : p[id].present})

NoReturn == [id |-> "none", value |-> FALSE]
NoShutdown == [pc |-> "idle", total |-> 0, successful |-> 0, failed |-> 0, left |-> 0]

PoolStart ==
  /\ pool = [id \in PoolIds |-> NoSession]
  /\ poolStats = [totalSessionsCreated |-> 0, totalSessionsClosed |-> 0,
                  maxConcurrentSessions |-> 0]
  /\ poolNow = 0
  /\ cleanupInterval = TRUE
  /\ cleaning = [id \in PoolIds |-> [c \in Callers |-> 0]]
  /\ returned = NoReturn
  /\ poolShutdown = NoShutdown

(***************************************************************************)
(* GracefulShutdown and the cleanup callback of index.ts                   *)
(***************************************************************************)

ConnIds == {"k1", "k2"}
Causes == {"SIGTERM", "SIGINT", "uncaughtException", "unhandledRejection"}

\* A session of the maps the callback loops over: a bridge session (sessions)
\* or an agent session (agentSessions); sigterms counts process.kill('SIGTERM'),
\* alive tells whether the child process of a bridge session is running.
GwSession(kind) ==
  [kind |-> kind, sigterms |-> 0, alive |-> (kind = "bridge"), sse |-> "open",
   stdio |-> "open"]

\* The sessions open when the shutdown starts: bridge sessions first (the loop
\* of line 356), then agent sessions (the loop of line 366).
GwSessionLists ==
  {[i \in 1..n |-> GwSession(IF i <= b THEN "bridge" ELSE "agent")] :
     <<n, b>> \in {x \in (0..MaxGwSessions) \X (0..MaxGwSessions) : x[2] <= x[1]}}

ShutdownReady ==
  /\ isShuttingDown = FALSE
  /\ listening = TRUE
  /\ deadlineTimer = "unset"
  /\ connections = {}
  /\ destroyed = {}
  /\ cleanupPc = [i |-> 0, step |-> "none"]
  /\ cleanupInvocations = 0
  /\ triggers = 0
  /\ firstCause = "none"
  /\ exitStatus = -1

\* The shutdown variables while another machine runs.
ShutdownIdle == ShutdownReady /\ gwSessions = <<>>

ShutdownStart == ShutdownReady /\ gwSessions \in GwSessionLists

(***************************************************************************)
(* The stdout reader: bytes, chunks, lines                                 *)
(***************************************************************************)

\* The bytes a process writes: a quote, a newline, and the two bytes of one
\* character whose UTF-8 encoding is two bytes long.
Quote == "quote"
Newline == "newline"
LeadByte == "lead"
TrailByte == "trail"
Bytes == {Quote, Newline, LeadByte, TrailByte}

\* The characters of a decoded string: the two-byte character and U+FFFD, which
\* the decoder puts in the place of a byte sequence that is not valid UTF-8.
TwoByteChar == "two-byte char"
Replacement == "U+FFFD"

\* The byte sequences of length at most n.
RECURSIVE ByteSeqs(_)
ByteSeqs(n) ==
  IF n = 0 THEN {<<>>}
  ELSE LET shorter == ByteSeqs(n - 1) IN
         shorter \cup {Append(b, x) : b \in {c \in shorter : Len(c) = n - 1}, x \in Bytes}

\* chunk.toString() (line 91): each chunk is decoded as UTF-8 on its own. A lead
\* byte that its trail byte does not follow in the chunk, and a trail byte that
\* follows no lead byte, decode to U+FFFD.
RECURSIVE ChunkToString(_)
ChunkToString(chunk) ==
  IF chunk = <<>> THEN <<>>
  ELSE IF Head(chunk) = LeadByte
    THEN IF Len(chunk) >= 2 /\ chunk[2] = TrailByte
           THEN <<TwoByteChar>> \o ChunkToString(Tail(Tail(chunk)))
           ELSE <<Replacement>> \o ChunkToString(Tail(chunk))
  ELSE IF Head(chunk) = TrailByte
    THEN <<Replacement>> \o ChunkToString(Tail(chunk))
  ELSE <<Head(chunk)>> \o ChunkToString(Tail(chunk))

\* buffer.split('\n') (line 92): the pieces between the newlines, at least one.
RECURSIVE Split(_)
Split(str) ==
  IF str = <<>> THEN << <<>> >>
  ELSE LET rest == Split(Tail(str)) IN
         IF Head(str) = Newline
           THEN << <<>> >> \o rest
           ELSE << <<Head(str)>> \o Head(rest) >> \o Tail(rest)

\* JSON.parse(line) (line 99) of a line of these characters: a string literal, a
\* quote, characters other than a quote, a quote, parses to its content; any
\* other line makes JSON.parse throw.
IsJson(line) ==
  /\ Len(line) >= 2
  /\ line[1] = Quote
  /\ line[Len(line)] = Quote
  /\ \A i \in 2..(Len(line) - 1) : line[i] # Quote
JsonParse(line) == [value |-> SubSeq(line, 2, Len(line) - 1)]

\* The loop of lines 95-113 over the complete lines, as far as parsing goes:
\* empty lines are skipped, lines JSON.parse throws on are logged and dropped.
RECURSIVE ParseLines(_)
ParseLines(lines) ==
  IF lines = <<>> THEN <<>>
  ELSE (IF Head(lines) # <<>> /\ IsJson(Head(lines))
          THEN <<JsonParse(Head(lines))>> ELSE <<>>) \o ParseLines(Tail(lines))

\* All but the last element: the complete lines of a split.
Front(seq) == SubSeq(seq, 1, Len(seq) - 1)
Last(seq) == seq[Len(seq)]

ReaderReady ==
  /\ unread = stdoutBytes
  /\ buffer = <<>>
  /\ parsed = <<>>

\* The reader variables while another machine runs.
ReaderIdle == stdoutBytes = <<>> /\ ReaderReady

ReaderStart == stdoutBytes \in ByteSeqs(MaxBytes) /\ ReaderReady

(***************************************************************************)
(* retry(fn, options)                                                      *)
(***************************************************************************)

BaseDelay == 100          \* default of options.baseDelay
BackoffFactor == 2        \* default of options.backoffFactor
DefaultMaxDelay == 10000  \* default of options.maxDelay
OpDuration == 10          \* time an attempt that settles on its own takes
TimeoutMs == 250          \* the timeout option, when one is given

Messages == {"m1", "m2"}
Values == {"v1", "v2"}

Err(k, m) == [kind |-> k, msg |-> m]
Undefined == Err("undefined", "")

\* What fn may throw: Error objects, a TimeoutError (exported by the module, so an
\* operation can throw one itself) and a value that is not an Error.
OpErrors ==
  {Err("Error", m) : m \in Messages} \cup {Err("TimeoutError", "m1"), Err("NonError", "m1")}

\* withTimeout, line 192: the error its timer rejects with.
TimerError == Err("TimeoutError", "timed out")

\* error instanceof Error
IsError(e) == e.kind \in {"Error", "TimeoutError", "RetryableError"}

\* options.retryOn, a predicate on errors, given by the messages it accepts.
RetryOn(e) == e.msg \in rOpts.retryOn

RECURSIVE Pow(_, _)
Pow(b, n) == IF n = 0 THEN 1 ELSE b * Pow(b, n - 1)
Min(a, b) == IF a < b THEN a ELSE b

\* Line 154: Math.min(baseDelay * Math.pow(backoffFactor, attempt - 1), maxDelay)
BackoffDelay(attempt) == Min(BaseDelay * Pow(BackoffFactor, attempt - 1), rOpts.maxDelay)

\* Line 157: delay * (0.5 + Math.random() * 0.5), the factor in hundredths.
JitterFactors == {50, 99}
Jittered(delay, f) == (delay * f) \div 100

\* The catch block, lines 137-151: what the loop does with the error of an attempt.
AfterCatch_RetriesTimeout(e, attempt) ==
  IF IsError(e) /\ ~RetryOn(e) THEN "break"
  ELSE IF attempt = rOpts.maxAttempts THEN "break"
  ELSE "delay"
AfterCatch_StopsOneEarly(e, attempt) ==
  IF e.kind = "TimeoutError" THEN "throw"
  ELSE IF IsError(e) /\ ~RetryOn(e) THEN "break"
  ELSE IF attempt + 1 >= rOpts.maxAttempts THEN "break"
  ELSE "delay"
\* A catch block without the test of lines 149-151: it waits after the last
\* attempt as after any other.
AfterCatch_DelaysAfterLast(e, attempt) ==
  IF e.kind = "TimeoutError" THEN "throw"
  ELSE IF IsError(e) /\ ~RetryOn(e) THEN "break"
  ELSE "delay"
AfterCatch(e, attempt) ==
  IF e.kind = "TimeoutError" THEN "throw"
  ELSE IF IsError(e) /\ ~RetryOn(e) THEN "break"
  ELSE IF attempt = rOpts.maxAttempts THEN "break"
  ELSE "delay"

\* Lines 171-180: what is thrown after the loop.
FinalThrow_NoCause(lastError) ==
  IF lastError.kind = "TimeoutError" THEN lastError
  ELSE [kind |-> "RetryableError",
        attempts |-> rOpts.maxAttempts,
        msg |-> IF IsError(lastError) THEN lastError.msg ELSE "Unknown error",
        cause |-> Undefined]
FinalThrow(lastError) ==
  IF lastError.kind = "TimeoutError" THEN lastError
  ELSE [kind |-> "RetryableError",
        attempts |-> rOpts.maxAttempts,
        msg |-> IF IsError(lastError) THEN lastError.msg ELSE "Unknown error",
        cause |-> IF IsError(lastError) THEN lastError ELSE Undefined]

RetryOptions ==
  [maxAttempts : 1..MaxAttempts,
   maxDelay : {2 * BaseDelay, DefaultMaxDelay},
   jitter : BOOLEAN,
   timeout : {0, TimeoutMs},
   retryOn : SUBSET (Messages \cup {TimerError.msg})]

RetryReady ==
  /\ rPc = "ready"
  /\ rAttempt = 0
  /\ rLastError = Undefined
  /\ rOutcome = Undefined
  /\ rInvocations = 0
  /\ rHist = <<>>
  /\ rDelays = <<>>
  /\ rElapsed = 0

\* The retry variables while another machine runs.
RetryIdle == RetryReady /\ rOpts = [maxAttempts |-> 1, maxDelay |-> DefaultMaxDelay,
                                   jitter |-> FALSE, timeout |-> 0, retryOn |-> {}]

RetryStart == RetryReady /\ rOpts \in RetryOptions

(***************************************************************************)
(* CircuitBreaker                                                          *)
(***************************************************************************)

\* execute, line 51: Date.now() - this.lastFailureTime > this.resetTimeout
ResetElapsed_AtBoundary(t, last, timeout) == t - last >= timeout
ResetElapsed(t, last, timeout) == t - last > timeout

\* recordFailure, line 95: this.failures >= this.failureThreshold
ReachedFailureThreshold_Above(n, threshold) == n > threshold
ReachedFailureThreshold(n, threshold) == n >= threshold

\* recordSuccess, line 80: this.consecutiveSuccesses >= this.halfOpenSuccessThreshold
ReachedSuccessThreshold_Above(n, threshold) == n > threshold
ReachedSuccessThreshold(n, threshold) == n >= threshold

IdleCall == [pc |-> "idle", invoked |-> 0, probe |-> FALSE]

Snapshot(st, f, s) == [state |-> st, failures |-> f, successes |-> s]
Before == Snapshot(cbState, failures, consecutiveSuccesses)

CBStart ==
  /\ cbState = "CLOSED"
  /\ failures = 0
  /\ lastFailureTime = 0
  /\ consecutiveSuccesses = 0
  /\ failureThreshold \in 1..MaxThreshold
  /\ resetTimeout \in 1..2
  /\ halfOpenSuccessThreshold \in 1..MaxThreshold
  /\ now = 0
  /\ calls = [c \in CallIds |-> IdleCall]
  /\ cbPrev = Snapshot("CLOSED", 0, 0)
  /\ consecFail = 0

\* The breaker variables while another machine runs.
CBIdle == CBStart /\ failureThreshold = 1 /\ resetTimeout = 1
          /\ halfOpenSuccessThreshold = 1

\* Date.now() advances between any two steps of the event loop.
Tick ==
  /\ now < MaxTime
  /\ now' = now + 1
  /\ UNCHANGED <<cbState, failures, lastFailureTime, consecutiveSuccesses,
                 failureThreshold, resetTimeout, halfOpenSuccessThreshold,
                 calls, cbPrev, consecFail>>

\* execute, lines 50-61: the gate, up to the call of fn().
ExecuteStart(c) ==
  /\ calls[c].pc # "running"
  /\ IF cbState = "OPEN"
       THEN IF ResetElapsed(now, lastFailureTime, resetTimeout)
              THEN /\ cbState' = "HALF_OPEN"
                   /\ cbPrev' = Before
                   /\ calls' = [calls EXCEPT ![c] =
                                  [pc |-> "running", invoked |-> 1, probe |-> TRUE]]
              ELSE /\ calls' = [calls EXCEPT ![c] =
                                  [pc |-> "rejected", invoked |-> 0, probe |-> FALSE]]
                   /\ UNCHANGED <<cbState, cbPrev>>
       ELSE /\ calls' = [calls EXCEPT ![c] =
                           [pc |-> "running", invoked |-> 1, probe |-> FALSE]]
            /\ UNCHANGED <<cbState, cbPrev>>
  /\ UNCHANGED <<failures, lastFailureTime, consecutiveSuccesses,
                 failureThreshold, resetTimeout, halfOpenSuccessThreshold,
                 now, consecFail>>

\* A recordSuccess that closes the breaker from whatever state it is in.
RecordSuccess_ClosesFromAnyState ==
  /\ failures' = 0
  /\ IF cbState # "CLOSED"
       THEN IF ReachedSuccessThreshold(consecutiveSuccesses + 1, halfOpenSuccessThreshold)
              THEN /\ cbState' = "CLOSED"
                   /\ cbPrev' = Before
                   /\ consecutiveSuccesses' = 0
              ELSE /\ consecutiveSuccesses' = consecutiveSuccesses + 1
                   /\ UNCHANGED <<cbState, cbPrev>>
       ELSE UNCHANGED <<cbState, cbPrev, consecutiveSuccesses>>
  /\ consecFail' = 0
  /\ UNCHANGED lastFailureTime

\* A recordSuccess that resets the failure count only while CLOSED: the success
\* that closes the breaker leaves the count that opened it.
RecordSuccess_ResetsOnlyWhenClosed ==
  /\ failures' = IF cbState = "CLOSED" THEN 0 ELSE failures
  /\ IF cbState = "HALF_OPEN"
       THEN IF ReachedSuccessThreshold(consecutiveSuccesses + 1, halfOpenSuccessThreshold)
              THEN /\ cbState' = "CLOSED"
                   /\ cbPrev' = Before
                   /\ consecutiveSuccesses' = 0
              ELSE /\ consecutiveSuccesses' = consecutiveSuccesses + 1
                   /\ UNCHANGED <<cbState, cbPrev>>
       ELSE UNCHANGED <<cbState, cbPrev, consecutiveSuccesses>>
  /\ consecFail' = 0
  /\ UNCHANGED lastFailureTime

\* A recordSuccess that resets the failure count only in HALF_OPEN, on the way
\* to CLOSED: a success while CLOSED leaves the count as it is.
RecordSuccess_ResetsOnlyWhenHalfOpen ==
  /\ failures' = IF cbState = "HALF_OPEN" THEN 0 ELSE failures
  /\ IF cbState = "HALF_OPEN"
       THEN IF ReachedSuccessThreshold(consecutiveSuccesses + 1, halfOpenSuccessThreshold)
              THEN /\ cbState' = "CLOSED"
                   /\ cbPrev' = Before
                   /\ consecutiveSuccesses' = 0
              ELSE /\ consecutiveSuccesses' = consecutiveSuccesses + 1
                   /\ UNCHANGED <<cbState, cbPrev>>
       ELSE UNCHANGED <<cbState, cbPrev, consecutiveSuccesses>>
  /\ consecFail' = 0
  /\ UNCHANGED lastFailureTime

\* recordSuccess, lines 76-86.
RecordSuccess ==
  /\ failures' = 0
  /\ IF cbState = "HALF_OPEN"
       THEN IF ReachedSuccessThreshold(consecutiveSuccesses + 1, halfOpenSuccessThreshold)
              THEN /\ cbState' = "CLOSED"
                   /\ cbPrev' = Before
                   /\ consecutiveSuccesses' = 0
              ELSE /\ consecutiveSuccesses' = consecutiveSuccesses + 1
                   /\ UNCHANGED <<cbState, cbPrev>>
       ELSE UNCHANGED <<cbState, cbPrev, consecutiveSuccesses>>
  /\ consecFail' = 0
  /\ UNCHANGED lastFailureTime

\* A recordFailure without the HALF_OPEN case: the threshold alone decides.
RecordFailure_NoHalfOpenCase ==
  /\ failures' = failures + 1
  /\ lastFailureTime' = now
  /\ IF ReachedFailureThreshold(failures + 1, failureThreshold)
       THEN /\ cbState' = "OPEN"
            /\ cbPrev' = IF cbState = "OPEN" THEN cbPrev ELSE Before
            /\ UNCHANGED consecutiveSuccesses
       ELSE UNCHANGED <<cbState, cbPrev, consecutiveSuccesses>>
  /\ consecFail' = consecFail + 1

\* recordFailure, lines 88-102.
RecordFailure ==
  /\ failures' = failures + 1
  /\ lastFailureTime' = now
  /\ IF cbState = "HALF_OPEN"
       THEN /\ cbState' = "OPEN"
            /\ cbPrev' = Before
            /\ consecutiveSuccesses' = 0
       ELSE IF ReachedFailureThreshold(failures + 1, failureThreshold)
              THEN /\ cbState' = "OPEN"
                   /\ cbPrev' = IF cbState = "OPEN" THEN cbPrev ELSE Before
                   /\ UNCHANGED consecutiveSuccesses
              ELSE UNCHANGED <<cbState, cbPrev, consecutiveSuccesses>>
  /\ consecFail' = consecFail + 1

\* execute, lines 61-63: fn() resolved.
FnResolves(c) ==
  /\ calls[c].pc = "running"
  /\ RecordSuccess
  /\ calls' = [calls EXCEPT ![c].pc = "returned"]
  /\ UNCHANGED <<failureThreshold, resetTimeout, halfOpenSuccessThreshold, now>>

\* execute, lines 64-73: fn() rejected.
FnRejects(c) ==
  /\ calls[c].pc = "running"
  /\ failures < MaxFailures
  /\ RecordFailure
  /\ calls' = [calls EXCEPT ![c].pc = "threw"]
  /\ UNCHANGED <<failureThreshold, resetTimeout, halfOpenSuccessThreshold, now>>

CBNext ==
  \/ Tick /\ UNCHANGED exceptBreaker
  \/ \E c \in CallIds : ExecuteStart(c) /\ UNCHANGED exceptBreaker
  \/ \E c \in CallIds : FnResolves(c) /\ UNCHANGED exceptBreaker
  \/ \E c \in CallIds : FnRejects(c) /\ UNCHANGED exceptBreaker

CBInit == CBStart /\ RetryIdle /\ BridgeStart /\ PoolStart /\ ShutdownIdle /\ ReaderIdle

SpecBreaker == CBInit /\ [][CBNext]_vars

(***************************************************************************)
(* retry(fn, options): the steps of one call                               *)
(***************************************************************************)

\* retry is called: the loop starts at attempt 1 and calls fn (lines 131-136).
RetryCall ==
  /\ rPc = "ready"
  /\ rAttempt' = 1
  /\ rInvocations' = 1
  /\ rPc' = "awaiting"
  /\ UNCHANGED <<rOpts, rLastError, rOutcome, rHist, rDelays, rElapsed>>

\* The attempt resolves (before the timer, when a timeout is set): retry returns.
AttemptResolves(v) ==
  /\ rPc = "awaiting"
  /\ rPc' = "returned"
  /\ rOutcome' = [kind |-> "value", value |-> v]
  /\ rHist' = Append(rHist, [type |-> "ok", value |-> v])
  /\ rElapsed' = rElapsed + OpDuration
  /\ UNCHANGED <<rOpts, rAttempt, rLastError, rInvocations, rDelays>>

\* The catch block on error e, raised after dt; how tells the history what happened.
Caught(e, how, dt) ==
  /\ rLastError' = e
  /\ rHist' = Append(rHist, [type |-> how, error |-> e])
  /\ LET todo == AfterCatch(e, rAttempt) IN
       \/ /\ todo = "throw"
          /\ rPc' = "threw"
          /\ rOutcome' = e
          /\ rElapsed' = rElapsed + dt
          /\ UNCHANGED rDelays
       \/ /\ todo = "break"
          /\ rPc' = "threw"
          /\ rOutcome' = FinalThrow(e)
          /\ rElapsed' = rElapsed + dt
          /\ UNCHANGED rDelays
       \/ /\ todo = "delay"
          /\ rPc' = "backoff"
          /\ \E f \in (IF rOpts.jitter THEN JitterFactors ELSE {100}) :
               rDelays' = Append(rDelays, Jittered(BackoffDelay(rAttempt), f))
          /\ rElapsed' = rElapsed + dt
          /\ UNCHANGED rOutcome
  /\ UNCHANGED <<rOpts, rAttempt, rInvocations>>

\* The attempt rejects with e (before the timer, when a timeout is set).
AttemptRejects(e) ==
  /\ rPc = "awaiting"
  /\ Caught(e, "err", OpDuration)

\* withTimeout, lines 183-201: the timer fires before fn settles.
AttemptTimesOut ==
  /\ rPc = "awaiting"
  /\ rOpts.timeout > 0
  /\ Caught(TimerError, "timeout", rOpts.timeout)

\* Line 167 and the next iteration: the delay is over, attempt++, and fn is called
\* if the loop condition of line 131 holds; if not, the loop is left for the throw
\* of lines 171-180.
BackoffElapses ==
  /\ rPc = "backoff"
  /\ rAttempt' = rAttempt + 1
  /\ rElapsed' = rElapsed + rDelays[Len(rDelays)]
  /\ IF rAttempt + 1 <= rOpts.maxAttempts
       THEN /\ rInvocations' = rInvocations + 1
            /\ rPc' = "awaiting"
            /\ UNCHANGED rOutcome
       ELSE /\ rPc' = "threw"
            /\ rOutcome' = FinalThrow(rLastError)
            /\ UNCHANGED rInvocations
  /\ UNCHANGED <<rOpts, rLastError, rHist, rDelays>>

RetryNext ==
  \/ RetryCall /\ UNCHANGED exceptRetry
  \/ \E v \in Values : AttemptResolves(v) /\ UNCHANGED exceptRetry
  \/ \E e \in OpErrors : AttemptRejects(e) /\ UNCHANGED exceptRetry
  \/ AttemptTimesOut /\ UNCHANGED exceptRetry
  \/ BackoffElapses /\ UNCHANGED exceptRetry

RetryInit == RetryStart /\ CBIdle /\ BridgeStart /\ PoolStart /\ ShutdownIdle /\ ReaderIdle

SpecRetry == RetryInit /\ [][RetryNext]_vars

(***************************************************************************)
(* The bridge: the handlers                                                *)
(***************************************************************************)

\* GET /sse past the checks of the command, lines 47-150: spawn, register the
\* handlers, sessions.set, the headers and the endpoint event, the two intervals.
\* A spawn that fails still returns a process object; its 'error' event comes
\* later.
OpenSession(s, spawned) ==
  /\ proc[s].state = "none"
  /\ proc' = [proc EXCEPT ![s] = [state |-> IF spawned THEN "running" ELSE "failed",
                                  killed |-> FALSE, errored |-> FALSE]]
  /\ sessions' = sessions \cup {s}
  /\ stream' = [stream EXCEPT ![s] = "open"]
  /\ httpStatus' = 200
  /\ UNCHANGED <<pendingRequests, messageQueue, delivered, stdinWrites, slots,
                 emitted, written, kills, tornDown, tornAt>>

\* GET /sse without the test of the allow list of lines 43-45.
GetSse_NoAllowList(s, command, spawned) ==
  IF command = NoCommand
    THEN /\ proc[s].state = "none"
         /\ httpStatus' = 400
         /\ UNCHANGED <<sessions, proc, stream, pendingRequests, messageQueue,
                        delivered, stdinWrites, slots, emitted, written, kills,
                        tornDown, tornAt>>
    ELSE OpenSession(s, spawned)

\* GET /sse, lines 34-150; s is the session id the request would be given.
GetSse(s, command, spawned) ==
  IF command = NoCommand \/ command \notin AllowedCommands
    THEN /\ proc[s].state = "none"
         /\ httpStatus' = IF command = NoCommand THEN 400 ELSE 403
         /\ UNCHANGED <<sessions, proc, stream, pendingRequests, messageQueue,
                        delivered, stdinWrites, slots, emitted, written, kills,
                        tornDown, tornAt>>
    ELSE OpenSession(s, spawned)

\* The loops of lines 74-76 and 83-85: reject of every slot in the Map. reject
\* clears the slot's timer (line 191); the Map keeps its entries.
RejectAll_ClearsNothing(s) ==
  [n \in DOMAIN slots |->
     IF n \in InMap(s) THEN [slots[n] EXCEPT !.rejected = @ + 1] ELSE slots[n]]
RejectAll(s) ==
  [n \in DOMAIN slots |->
     IF n \in InMap(s)
       THEN [slots[n] EXCEPT !.rejected = @ + 1, !.timer = FALSE]
       ELSE slots[n]]

\* History: the first teardown trigger of s marks the slots then in the Map.
MarkTeardown(sl, s) ==
  IF tornDown[s] THEN sl
  ELSE [n \in DOMAIN sl |->
          IF n \in InMap(s) THEN [sl[n] EXCEPT !.atTeardown = TRUE] ELSE sl[n]]

\* History: the first teardown trigger of s notes how many lines stdout has
\* delivered so far.
FirstTeardown(s) == IF tornDown[s] THEN tornAt ELSE [tornAt EXCEPT ![s] = emitted]

\* proc.on('exit'), lines 71-78.
ProcExit(s) ==
  /\ proc[s].state = "running"
  /\ proc' = [proc EXCEPT ![s].state = "exited"]
  /\ slots' = MarkTeardown(RejectAll(s), s)
  /\ sessions' = sessions \ {s}
  /\ tornDown' = [tornDown EXCEPT ![s] = TRUE]
  /\ tornAt' = FirstTeardown(s)
  /\ UNCHANGED <<stream, pendingRequests, messageQueue, delivered, stdinWrites,
                 emitted, written, httpStatus, kills>>

\* proc.on('error'), lines 80-86. The event the model raises is that of a spawn
\* that failed, once; proc.kill is taken to deliver its signal, so a running
\* process raises none.
ProcError(s) ==
  /\ proc[s].state = "failed"
  /\ ~proc[s].errored
  /\ proc' = [proc EXCEPT ![s].errored = TRUE]
  /\ slots' = MarkTeardown(RejectAll(s), s)
  /\ tornDown' = [tornDown EXCEPT ![s] = TRUE]
  /\ tornAt' = FirstTeardown(s)
  /\ UNCHANGED <<sessions, stream, pendingRequests, messageQueue, delivered,
                 stdinWrites, emitted, written, httpStatus, kills>>

\* The body of the loop of lines 95-113 for one line; st holds the Map of the
\* session, the slots and the queue.
HandleLine_KeepsEntry(st, line) ==
  IF line.id \in {Junk, Null} THEN st
  ELSE IF line.id # NoId /\ st.map[line.id] # 0
    THEN LET n == st.map[line.id] IN
         [map |-> st.map,
          slots |-> [st.slots EXCEPT ![n].resolved = @ + 1, ![n].timer = FALSE,
                                     ![n].got = line.n],
          queue |-> Append(st.queue, line)]
    ELSE [st EXCEPT !.queue = Append(@, line)]
HandleLine(st, line) ==
  IF line.id \in {Junk, Null} THEN st
  ELSE IF line.id # NoId /\ st.map[line.id] # 0
    THEN LET n == st.map[line.id] IN
         [map |-> [st.map EXCEPT ![line.id] = 0],
          slots |-> [st.slots EXCEPT ![n].resolved = @ + 1, ![n].timer = FALSE,
                                     ![n].got = line.n],
          queue |-> Append(st.queue, line)]
    ELSE [st EXCEPT !.queue = Append(@, line)]

RECURSIVE HandleLines_StopsAtJunk(_, _)
HandleLines_StopsAtJunk(st, lines) ==
  IF lines = <<>> \/ Head(lines).id = Junk THEN st
  ELSE HandleLines_StopsAtJunk(HandleLine(st, Head(lines)), Tail(lines))
RECURSIVE HandleLines(_, _)
HandleLines(st, lines) ==
  IF lines = <<>> THEN st
  ELSE HandleLines(HandleLine(st, Head(lines)), Tail(lines))

LineIds == MsgIds \cup {NoId, Junk}

\* proc.stdout.on('data'), lines 90-114, for a chunk of whole lines. Data written
\* before the exit can still arrive after the 'exit' event.
ProcStdout(s, ids) ==
  /\ proc[s].state \in {"running", "exited"}
  /\ emitted + Len(ids) <= MaxLines
  /\ LET lines == [k \in 1..Len(ids) |-> [id |-> ids[k], n |-> emitted + k]]
         st == HandleLines([map |-> pendingRequests[s], slots |-> slots,
                            queue |-> messageQueue[s]], lines)
     IN  /\ pendingRequests' = [pendingRequests EXCEPT ![s] = st.map]
         /\ slots' = st.slots
         /\ messageQueue' = [messageQueue EXCEPT ![s] = st.queue]
  /\ emitted' = emitted + Len(ids)
  /\ written' = written \o [k \in 1..Len(ids) |-> [sid |-> s, id |-> ids[k]]]
  /\ UNCHANGED <<sessions, proc, stream, delivered, stdinWrites, httpStatus,
                 kills, tornDown, tornAt>>

\* POST /sse?sessionId=s with a message whose id is id, lines 152-202.
PostMessage(s, id) ==
  /\ Len(slots) < MaxPosts
  /\ IF s \notin sessions
       THEN /\ httpStatus' = 404
            /\ UNCHANGED <<stdinWrites, slots, pendingRequests>>
       ELSE IF proc[s].killed
         THEN /\ httpStatus' = 503
              /\ UNCHANGED <<stdinWrites, slots, pendingRequests>>
         ELSE /\ stdinWrites' = [stdinWrites EXCEPT ![s] = @ + 1]
              /\ httpStatus' = 202
              /\ IF id # NoId
                   THEN /\ slots' = Append(slots, NewSlot(s, id))
                        /\ pendingRequests' =
                             [pendingRequests EXCEPT ![s][id] = Len(slots) + 1]
                   ELSE UNCHANGED <<slots, pendingRequests>>
  /\ stdinWrites[s] < MaxPosts
  /\ UNCHANGED <<sessions, proc, stream, messageQueue, delivered, emitted, written,
                 kills, tornDown, tornAt>>

\* The timer callback of lines 179-182: it deletes whatever entry the Map holds
\* under the id of its request.
TimeoutDeletes_Nothing(map, id) == map
TimeoutDeletes(map, id) == [map EXCEPT ![id] = 0]

RequestTimeout(n) ==
  /\ n \in DOMAIN slots
  /\ slots[n].timer
  /\ pendingRequests' = [pendingRequests EXCEPT
                           ![slots[n].sid] = TimeoutDeletes(@, slots[n].id)]
  /\ slots' = [slots EXCEPT ![n].timer = FALSE, ![n].timedOut = @ + 1]
  /\ UNCHANGED <<sessions, proc, stream, messageQueue, delivered, stdinWrites,
                 emitted, written, httpStatus, kills, tornDown, tornAt>>

\* sendMessageInterval, lines 130-137: runs until clearInterval (line 144).
Drain_KeepsQueue(s) ==
  /\ stream[s] = "open"
  /\ messageQueue[s] # <<>>
  /\ Len(delivered[s]) < MaxLines
  /\ delivered' = [delivered EXCEPT ![s] = @ \o messageQueue[s]]
  /\ UNCHANGED <<sessions, proc, stream, pendingRequests, stdinWrites, slots,
                 emitted, written, httpStatus, kills, tornDown, tornAt, messageQueue>>
Drain(s) ==
  /\ stream[s] = "open"
  /\ messageQueue[s] # <<>>
  /\ delivered' = [delivered EXCEPT ![s] = @ \o messageQueue[s]]
  /\ messageQueue' = [messageQueue EXCEPT ![s] = <<>>]
  /\ UNCHANGED <<sessions, proc, stream, pendingRequests, stdinWrites, slots,
                 emitted, written, httpStatus, kills, tornDown, tornAt>>

\* res.on('close'), lines 143-149: the client went away.
StreamClose_KeepsSession(s) ==
  /\ stream[s] = "open"
  /\ stream' = [stream EXCEPT ![s] = "closed"]
  /\ kills' = [kills EXCEPT ![s] = @ + 1]
  /\ proc' = [proc EXCEPT ![s].killed = (proc[s].state = "running")]
  /\ slots' = MarkTeardown(slots, s)
  /\ tornDown' = [tornDown EXCEPT ![s] = TRUE]
  /\ tornAt' = FirstTeardown(s)
  /\ UNCHANGED <<pendingRequests, messageQueue, delivered, stdinWrites, emitted,
                 written, httpStatus, sessions>>
StreamClose(s) ==
  /\ stream[s] = "open"
  /\ stream' = [stream EXCEPT ![s] = "closed"]
  /\ kills' = [kills EXCEPT ![s] = @ + 1]
  /\ proc' = [proc EXCEPT ![s].killed = (proc[s].state = "running")]
  /\ sessions' = sessions \ {s}
  /\ slots' = MarkTeardown(slots, s)
  /\ tornDown' = [tornDown EXCEPT ![s] = TRUE]
  /\ tornAt' = FirstTeardown(s)
  /\ UNCHANGED <<pendingRequests, messageQueue, delivered, stdinWrites, emitted,
                 written,
                 httpStatus>>

\* An 'error' event on proc.stdin: the child has closed its end of the pipe and a
\* write of line 170 failed with EPIPE after write() had returned, too late for
\* the try of lines 168-202. Nothing listens for 'error' on proc.stdin and no
\* 'uncaughtException' handler is installed, so the event ends the gateway
\* process, and with it every session's Map, queue, timers and stream.
StdinError(s) ==
  /\ gatewayUp
  /\ proc[s].state = "running"
  /\ stdinWrites[s] > 0
  /\ gatewayUp' = FALSE
  /\ sessions' = {}
  /\ pendingRequests' = [t \in AllSessionIds |-> [i \in MsgIds |-> 0]]
  /\ messageQueue' = [t \in AllSessionIds |-> <<>>]
  /\ stream' = [t \in AllSessionIds |-> IF stream[t] = "open" THEN "closed" ELSE stream[t]]
  /\ slots' = [n \in DOMAIN slots |-> [slots[n] EXCEPT !.timer = FALSE]]
  /\ UNCHANGED <<proc, delivered, stdinWrites, emitted, written, httpStatus, kills,
                 tornDown, tornAt>>

\* A timer of the event loop fires: only the bridge moves.
TimerFires(n) == RequestTimeout(n) /\ UNCHANGED exceptBridge

Chunks == {<<a>> : a \in LineIds} \cup {<<a, b>> : a \in LineIds, b \in LineIds}

BridgeNext ==
  \/ \E s \in SessionIds, command \in Commands, ok \in BOOLEAN :
       GetSse(s, command, ok) /\ UNCHANGED exceptBridge
  \/ \E s \in SessionIds : ProcExit(s) /\ UNCHANGED exceptBridge
  \/ \E s \in SessionIds : ProcError(s) /\ UNCHANGED exceptBridge
  \/ \E s \in SessionIds, ids \in Chunks : ProcStdout(s, ids) /\ UNCHANGED exceptBridge
  \/ \E s \in SessionIds, id \in MsgIds \cup {NoId} : PostMessage(s, id) /\ UNCHANGED exceptBridge
  \/ \E n \in 1..MaxPosts : TimerFires(n)
  \/ \E s \in SessionIds : Drain(s) /\ UNCHANGED exceptBridge
  \/ \E s \in SessionIds : StreamClose(s) /\ UNCHANGED exceptBridge

Init == BridgeStart /\ CBIdle /\ RetryIdle /\ PoolStart /\ ShutdownIdle /\ ReaderIdle

Spec == Init /\ [][BridgeNext]_vars

\* setTimeout (line 179): a timer that is not cleared fires.
SpecTimers == Spec /\ \A n \in 1..MaxPosts : WF_vars(TimerFires(n))

\* The bridge serving two clients, with the events that build up the state of a
\* session (open, a POSTed request, its response on stdout) and the events one
\* session can suffer: the crash of its process, a malformed line, a timeout,
\* the close of its stream, the failure of a write to stdin.
IsolationNext ==
  \/ /\ gatewayUp
     /\ \/ \E s \in AllSessionIds : GetSse(s, "node", TRUE)
        \/ \E s \in AllSessionIds : ProcExit(s)
        \/ \E s \in AllSessionIds, a \in {"a", Junk, Null} : ProcStdout(s, <<a>>)
        \/ \E s \in AllSessionIds : PostMessage(s, "a")
        \/ \E n \in 1..MaxPosts : RequestTimeout(n)
        \/ \E s \in AllSessionIds : StreamClose(s)
     /\ UNCHANGED exceptBridge
  \/ \E s \in AllSessionIds : StdinError(s) /\ UNCHANGED exceptGateway

SpecIsolation == Init /\ [][IsolationNext]_vars

(***************************************************************************)
(* ConnectionPool: the methods, the sweep and the settling of cleanups      *)
(***************************************************************************)

Max(a, b) == IF a > b THEN a ELSE b

\* Date.now() advances.
PoolTick ==
  /\ poolNow < MaxPoolTime
  /\ poolNow' = poolNow + 1
  /\ UNCHANGED <<pool, poolStats, cleanupInterval, cleaning, returned, poolShutdown>>

\* addSession without the update of the high-water mark of lines 43-46.
AddSession_NoHighWater(id, type) ==
  /\ poolStats.totalSessionsCreated < MaxAdds
  /\ pool' = [pool EXCEPT ![id] = NewSession(type, poolNow)]
  /\ poolStats' = [poolStats EXCEPT !.totalSessionsCreated = @ + 1]
  /\ UNCHANGED <<poolNow, cleanupInterval, cleaning, returned, poolShutdown>>

\* addSession, lines 26-58: sessions.set replaces a session registered under id.
AddSession(id, type) ==
  /\ poolStats.totalSessionsCreated < MaxAdds
  /\ pool' = [pool EXCEPT ![id] = NewSession(type, poolNow)]
  /\ poolStats' = [poolStats EXCEPT
                     !.totalSessionsCreated = @ + 1,
                     !.maxConcurrentSessions = Max(@, PoolSize(pool'))]
  /\ UNCHANGED <<poolNow, cleanupInterval, cleaning, returned, poolShutdown>>

\* getSession, lines 60-66, of a registered session.
GetSession(id) ==
  /\ pool[id].present
  /\ pool' = [pool EXCEPT ![id].lastActivity = poolNow]
  /\ UNCHANGED <<poolStats, poolNow, cleanupInterval, cleaning, returned, poolShutdown>>

\* updateActivity, lines 108-115, of a registered session.
UpdateActivity(id) ==
  /\ pool[id].present
  /\ pool' = [pool EXCEPT ![id].lastActivity = poolNow]
  /\ UNCHANGED <<poolStats, poolNow, cleanupInterval, cleaning, returned, poolShutdown>>

\* removeSession(id), lines 68-84, as a function of the Map and the statistics.
Removed(p, st, id) ==
  IF p[id].present
    THEN [pool |-> [p EXCEPT ![id] = NoSession],
          stats |-> [st EXCEPT !.totalSessionsClosed = @ + 1]]
    ELSE [pool |-> p, stats |-> st]

\* removeSession called by a client.
RemoveSession(id) ==
  /\ pool[id].present
  /\ pool' = Removed(pool, poolStats, id).pool
  /\ poolStats' = Removed(pool, poolStats, id).stats
  /\ UNCHANGED <<poolNow, cleanupInterval, cleaning, returned, poolShutdown>>

\* getStats(), lines 151-175, without the average ages: the counts are taken from
\* the Map at the call, sessionsByType has a key for each type that occurs, and
\* the three counters of this.stats are copied.
GetStats ==
  LET present == {id \in PoolIds : pool[id].present}
      types == {pool[id].type : id \in present}
  IN  [currentSessions |-> Cardinality(present),
       sessionsByType |->
         [t \in types |-> Cardinality({id \in present : pool[id].type = t})],
       totalSessionsCreated |-> poolStats.totalSessionsCreated,
       totalSessionsClosed |-> poolStats.totalSessionsClosed,
       maxConcurrentSessions |-> poolStats.maxConcurrentSessions]

RECURSIVE Sum(_, _)
Sum(f, S) == IF S = {} THEN 0 ELSE LET x == CHOOSE y \in S : TRUE IN f[x] + Sum(f, S \ {x})

\* The cleanupSession calls that wait for a cleanup.
Waiting == Sum([x \in PoolIds \X Callers |-> cleaning[x[1]][x[2]]], PoolIds \X Callers)

\* cleanupSession(id) up to its await, lines 87-93, for each id of ids on behalf
\* of caller by: the session's cleanup is invoked and the call waits for it.
StartCleanup(ids, by) ==
  /\ \A id \in ids : pool[id].present
  /\ Waiting + Cardinality(ids) <= MaxCleanups
  /\ pool' = [id \in PoolIds |->
                IF id \in ids THEN [pool[id] EXCEPT !.cleanups = @ + 1] ELSE pool[id]]
  /\ cleaning' = [id \in PoolIds |->
                    IF id \in ids THEN [cleaning[id] EXCEPT ![by] = @ + 1]
                    ELSE cleaning[id]]

\* cleanupSession(id) called by a client: false at once for an unknown id.
CleanupSessionCall(id) ==
  /\ IF pool[id].present
       THEN StartCleanup({id}, "client") /\ UNCHANGED returned
       ELSE /\ returned' = [id |-> id, value |-> FALSE]
            /\ UNCHANGED <<pool, cleaning>>
  /\ UNCHANGED <<poolStats, poolNow, cleanupInterval, poolShutdown>>

\* cleanupSession without the removeSession of its catch (line 99).
CleanupSettles_KeepsOnReject(id, by, ok) ==
  /\ cleaning[id][by] > 0
  /\ cleaning' = [cleaning EXCEPT ![id][by] = @ - 1]
  /\ pool' = IF ok THEN Removed(pool, poolStats, id).pool ELSE pool
  /\ poolStats' = IF ok THEN Removed(pool, poolStats, id).stats ELSE poolStats
  /\ returned' = IF by = "client" THEN [id |-> id, value |-> ok] ELSE returned
  /\ poolShutdown' =
       IF by = "shutdown"
         THEN [poolShutdown EXCEPT
                 !.successful = IF ok THEN @ + 1 ELSE @,
                 !.failed = IF ok THEN @ ELSE @ + 1,
                 !.left = @ - 1,
                 !.pc = IF poolShutdown.left = 1 THEN "returned" ELSE @]
         ELSE poolShutdown
  /\ UNCHANGED <<poolNow, cleanupInterval>>

\* The cleanup a cleanupSession call waits for resolves (ok) or rejects, lines
\* 94-105: the session is removed either way and the call returns ok. A call made
\* by shutdown() is one of those its Promise.all waits for (lines 190-202).
CleanupSettles(id, by, ok) ==
  /\ cleaning[id][by] > 0
  /\ cleaning' = [cleaning EXCEPT ![id][by] = @ - 1]
  /\ pool' = Removed(pool, poolStats, id).pool
  /\ poolStats' = Removed(pool, poolStats, id).stats
  /\ returned' = IF by = "client" THEN [id |-> id, value |-> ok] ELSE returned
  /\ poolShutdown' =
       IF by = "shutdown"
         THEN [poolShutdown EXCEPT
                 !.successful = IF ok THEN @ + 1 ELSE @,
                 !.failed = IF ok THEN @ ELSE @ + 1,
                 !.left = @ - 1,
                 !.pc = IF poolShutdown.left = 1 THEN "returned" ELSE @]
         ELSE poolShutdown
  /\ UNCHANGED <<poolNow, cleanupInterval>>

\* Line 129: inactiveTime > env.SESSION_TIMEOUT
IsStale_AtBoundary(session, t) ==
  session.present /\ t - session.lastActivity >= SessionTimeout
IsStale(session, t) ==
  session.present /\ t - session.lastActivity > SessionTimeout

\* cleanupStaleSessions, lines 123-149, run by the interval of line 118.
Sweep ==
  /\ cleanupInterval
  /\ LET staleSessions == {id \in PoolIds : IsStale(pool[id], poolNow)} IN
       /\ staleSessions # {}
       /\ StartCleanup(staleSessions, "sweep")
  /\ UNCHANGED <<poolStats, poolNow, cleanupInterval, returned, poolShutdown>>

\* shutdown() up to its await, lines 181-191.
PoolShutdown ==
  /\ poolShutdown.pc = "idle"
  /\ cleanupInterval' = FALSE
  /\ LET sessionIds == {id \in PoolIds : pool[id].present} IN
       /\ IF sessionIds = {}
            THEN UNCHANGED <<pool, cleaning>>
            ELSE StartCleanup(sessionIds, "shutdown")
       /\ poolShutdown' = [pc |-> IF sessionIds = {} THEN "returned" ELSE "awaiting",
                           total |-> Cardinality(sessionIds),
                           successful |-> 0, failed |-> 0,
                           left |-> Cardinality(sessionIds)]
  /\ UNCHANGED <<poolStats, poolNow, returned>>

PoolNext ==
  \/ PoolTick /\ UNCHANGED exceptPool
  \/ \E id \in PoolIds, type \in SessionTypes : AddSession(id, type) /\ UNCHANGED exceptPool
  \/ \E id \in PoolIds : GetSession(id) /\ UNCHANGED exceptPool
  \/ \E id \in PoolIds : UpdateActivity(id) /\ UNCHANGED exceptPool
  \/ \E id \in PoolIds : RemoveSession(id) /\ UNCHANGED exceptPool
  \/ \E id \in PoolIds : CleanupSessionCall(id) /\ UNCHANGED exceptPool
  \/ \E id \in PoolIds, by \in Callers, ok \in BOOLEAN :
       CleanupSettles(id, by, ok) /\ UNCHANGED exceptPool
  \/ Sweep /\ UNCHANGED exceptPool
  \/ PoolShutdown /\ UNCHANGED exceptPool

PoolInit == PoolStart /\ CBIdle /\ RetryIdle /\ BridgeStart /\ ShutdownIdle /\ ReaderIdle

SpecPool == PoolInit /\ [][PoolNext]_vars

(***************************************************************************)
(* GracefulShutdown: the triggers, the deadline timer, the cleanup callback *)
(***************************************************************************)

\* The callback turns to session j (index.ts:356-359): SIGTERM to the process of
\* a bridge session, then sseTransport.close() is called and awaited.
Enter(ss, j) ==
  [ss EXCEPT ![j].sigterms = IF ss[j].kind = "bridge" THEN @ + 1 ELSE @,
             ![j].sse = "closing"]

\* The callback has finished session i: the next session, or, after the last,
\* sessions.clear() and the return, upon which shutdown calls process.exit(0)
\* (shutdown.ts:64-67). Every await of the callback stands inside a try whose
\* catch only logs, so the callback never rejects and the catch of
\* shutdown.ts:68-71, with its process.exit(1), is never entered.
Advance(ss, i) ==
  IF i < Len(ss)
    THEN [sessions |-> Enter(ss, i + 1), pc |-> [i |-> i + 1, step |-> "sse"], exit |-> -1]
    ELSE [sessions |-> ss, pc |-> [i |-> i + 1, step |-> "none"], exit |-> 0]

\* shutdown(signal) without the test of isShuttingDown of lines 43-46.
ShutdownTrigger_Unguarded(cause) ==
  /\ exitStatus = -1
  /\ triggers < MaxTriggers
  /\ triggers' = triggers + 1
  /\ isShuttingDown' = TRUE
  /\ listening' = FALSE
  /\ deadlineTimer' = "armed"
  /\ firstCause' = cause
  /\ cleanupInvocations' = cleanupInvocations + 1
  /\ LET next == Advance(gwSessions, 0) IN
       /\ gwSessions' = next.sessions
       /\ cleanupPc' = next.pc
       /\ exitStatus' = next.exit
  /\ UNCHANGED <<connections, destroyed>>

\* A signal or a fatal error arrives: shutdown(signal), shutdown.ts:42-64, up to
\* the first await of the callback.
ShutdownTrigger(cause) ==
  /\ exitStatus = -1
  /\ triggers < MaxTriggers
  /\ triggers' = triggers + 1
  /\ IF isShuttingDown
       THEN UNCHANGED <<isShuttingDown, listening, deadlineTimer, gwSessions, cleanupPc,
                        cleanupInvocations, firstCause, exitStatus>>
       ELSE /\ isShuttingDown' = TRUE
            /\ listening' = FALSE
            /\ deadlineTimer' = "armed"
            /\ firstCause' = cause
            /\ cleanupInvocations' = cleanupInvocations + 1
            /\ LET next == Advance(gwSessions, 0) IN
                 /\ gwSessions' = next.sessions
                 /\ cleanupPc' = next.pc
                 /\ exitStatus' = next.exit
  /\ UNCHANGED <<connections, destroyed>>

\* The close the callback awaits resolves (ok) or rejects. After the stream of a
\* bridge session has closed, stdioTransport.close() is awaited (line 360); a
\* rejection is caught and logged (lines 361-363) and the loop goes on. A close
\* of the stream that succeeds has run sseTransport.onclose (lines 152-157), which
\* sends SIGTERM once more.
CloseSettles(ok) ==
  /\ exitStatus = -1
  /\ cleanupPc.i \in 1..Len(gwSessions)
  /\ LET i == cleanupPc.i
         result == IF ok THEN "closed" ELSE "failed"
     IN  IF cleanupPc.step = "sse" /\ gwSessions[i].kind = "bridge" /\ ok
           THEN /\ gwSessions' = [gwSessions EXCEPT ![i].sse = "closed",
                                                    ![i].sigterms = @ + 1,
                                                    ![i].stdio = "closing"]
                /\ cleanupPc' = [cleanupPc EXCEPT !.step = "stdio"]
                /\ UNCHANGED exitStatus
           ELSE LET settled == IF cleanupPc.step = "sse"
                                 THEN [gwSessions EXCEPT ![i].sse = result]
                                 ELSE [gwSessions EXCEPT ![i].stdio = result]
                    next == Advance(settled, i)
                IN  /\ gwSessions' = next.sessions
                    /\ cleanupPc' = next.pc
                    /\ exitStatus' = next.exit
  /\ UNCHANGED <<isShuttingDown, listening, deadlineTimer, connections, destroyed,
                 cleanupInvocations, triggers, firstCause>>

\* The child process of session i exits after a SIGTERM; nothing makes it do so,
\* a child may ignore the signal. proc.on('exit'), index.ts:138-143: the session,
\* which the loop has visited already, is deleted from the Map, and the close of
\* its stream is asked for again.
ChildExits(i) ==
  /\ exitStatus = -1
  /\ i \in 1..Len(gwSessions)
  /\ gwSessions[i].alive
  /\ gwSessions[i].sigterms > 0
  /\ gwSessions' = [gwSessions EXCEPT ![i].alive = FALSE]
  /\ UNCHANGED <<isShuttingDown, listening, deadlineTimer, connections, destroyed,
                 cleanupPc, cleanupInvocations, triggers, firstCause, exitStatus>>

\* The timer of shutdown.ts:57-60 fires: every tracked connection is destroyed.
DeadlineFires ==
  /\ exitStatus = -1
  /\ deadlineTimer = "armed"
  /\ deadlineTimer' = "fired"
  /\ destroyed' = destroyed \cup connections
  /\ connections' = {}
  /\ UNCHANGED <<isShuttingDown, listening, gwSessions, cleanupPc, cleanupInvocations,
                 triggers, firstCause, exitStatus>>

\* server.on('connection'), shutdown.ts:34-35.
ConnOpen(c) ==
  /\ exitStatus = -1
  /\ listening
  /\ c \notin connections
  /\ connections' = connections \cup {c}
  /\ UNCHANGED <<isShuttingDown, listening, deadlineTimer, destroyed, gwSessions,
                 cleanupPc, cleanupInvocations, triggers, firstCause, exitStatus>>

\* conn.on('close'), shutdown.ts:36-38: the peer closed the connection.
ConnClose(c) ==
  /\ exitStatus = -1
  /\ c \in connections
  /\ connections' = connections \ {c}
  /\ UNCHANGED <<isShuttingDown, listening, deadlineTimer, destroyed, gwSessions,
                 cleanupPc, cleanupInvocations, triggers, firstCause, exitStatus>>

ShutdownNext ==
  \/ \E cause \in Causes : ShutdownTrigger(cause) /\ UNCHANGED exceptShutdown
  \/ \E ok \in BOOLEAN : CloseSettles(ok) /\ UNCHANGED exceptShutdown
  \/ \E i \in 1..MaxGwSessions : ChildExits(i) /\ UNCHANGED exceptShutdown
  \/ DeadlineFires /\ UNCHANGED exceptShutdown
  \/ \E c \in ConnIds : ConnOpen(c) /\ UNCHANGED exceptShutdown
  \/ \E c \in ConnIds : ConnClose(c) /\ UNCHANGED exceptShutdown

ShutdownInit == ShutdownStart /\ CBIdle /\ RetryIdle /\ BridgeStart /\ PoolStart /\ ReaderIdle

SpecShutdown == ShutdownInit /\ [][ShutdownNext]_vars

(***************************************************************************)
(* The stdout reader: the 'data' events                                    *)
(***************************************************************************)

\* proc.stdout.on('data'), lines 90-114, for a chunk of the next k bytes: the
\* chunk is decoded and appended to buffer, buffer is split at the newlines, its
\* last piece is kept as the new buffer and the pieces before it are parsed.
StdoutData(k) ==
  /\ k \in 1..Len(unread)
  /\ LET chunk == SubSeq(unread, 1, k)
         lines == Split(buffer \o ChunkToString(chunk))
     IN  /\ buffer' = Last(lines)
         /\ parsed' = parsed \o ParseLines(Front(lines))
  /\ unread' = SubSeq(unread, k + 1, Len(unread))
  /\ UNCHANGED stdoutBytes

ReaderNext ==
  \E k \in 1..MaxBytes : StdoutData(k) /\ UNCHANGED exceptReader

ReaderInit ==
  ReaderStart /\ CBIdle /\ RetryIdle /\ BridgeStart /\ PoolStart /\ ShutdownIdle

SpecReader == ReaderInit /\ [][ReaderNext]_vars

(***************************************************************************)
(* Claims about the bridge, checked under Spec and SpecTimers.             *)
(***************************************************************************)

\* C1: for every session, whatever teardown triggers fire (process exit, process
\* error, close of the stream) and in whatever order, kill is sent to the process
\* at most once, and every request that was pending when the first trigger fired
\* has been rejected exactly once.
C1_TeardownKillsAndRejectsOnce ==
  /\ \A s \in SessionIds : kills[s] <= 1
  /\ \A n \in DOMAIN slots :
       /\ slots[n].rejected <= 1
       /\ slots[n].atTeardown => slots[n].rejected = 1

\* The timer of slot n is still armed: nothing has happened to the slot yet.
Armed(n) == n \in DOMAIN slots /\ slots[n].timer

\* C2 as stated: a slot whose timer is no longer armed was either resolved by a
\* matching response or removed by its timeout, exactly one of the two, and an
\* armed slot has seen neither.
C2_Original_ResolvedXorTimedOut ==
  \A n \in DOMAIN slots :
    /\ slots[n].resolved + slots[n].timedOut <= 1
    /\ ~slots[n].timer => slots[n].resolved + slots[n].timedOut = 1

C2_Settled ==
  \A n \in DOMAIN slots :
    /\ slots[n].resolved + slots[n].timedOut <= 1
    /\ slots[n].timedOut = 1 => slots[n].rejected = 0
    /\ slots[n].timer =>
         slots[n].resolved = 0 /\ slots[n].timedOut = 0 /\ slots[n].rejected = 0
    /\ ~slots[n].timer =>
         slots[n].resolved + slots[n].timedOut + slots[n].rejected >= 1

\* C2, amended: for every request forwarded with an id, a matching response
\* resolves its slot, or its timeout fires and removes it, or the exit or error of
\* the process rejects it first. A slot is never both resolved and timed out, a
\* timed-out slot was never rejected, and no slot stays armed for ever.
C2_ResolvedTimedOutOrRejected ==
  /\ []C2_Settled
  /\ \A n \in 1..MaxPosts : Armed(n) ~> ~Armed(n)

\* Two requests were forwarded; one was resolved by its response and the other
\* removed by its timeout.
C2_Witness ==
  \E n, m \in DOMAIN slots :
    /\ slots[n].resolved = 1 /\ slots[n].timedOut = 0 /\ ~slots[n].timer
    /\ slots[m].timedOut = 1 /\ slots[m].resolved = 0 /\ ~slots[m].timer
    /\ pendingRequests[slots[m].sid][slots[m].id] = 0

\* The lines the session has taken from stdout and kept, queued or written.
Kept(s) == delivered[s] \o messageQueue[s]

\* The lines session s keeps in this step: what the step adds to the queue.
NewlyKept(s) ==
  IF delivered'[s] = delivered[s] /\ Len(messageQueue'[s]) > Len(messageQueue[s])
    THEN SubSeq(messageQueue'[s], Len(messageQueue[s]) + 1, Len(messageQueue'[s]))
    ELSE <<>>

\* The number of the first of the lines in ls that carries id (0: none does).
RECURSIVE FirstWith(_, _)
FirstWith(ls, id) ==
  IF ls = <<>> THEN 0
  ELSE IF Head(ls).id = id THEN Head(ls).n ELSE FirstWith(Tail(ls), id)

\* C13: round trip. Whenever a response arrives whose id is that of a slot still
\* in the Map, that slot is resolved, once, with that response, its timer is
\* cleared and it leaves the Map, whatever other responses came before or come
\* in the same chunk, and no slot is resolved with another line; so N requests with distinct ids that are each answered
\* before their timeout are all resolved, each with its own response, and none
\* is left pending.
C13_RoundTrip ==
  [][/\ \A s \in SessionIds, id \in MsgIds :
       LET n == pendingRequests[s][id]
           l == FirstWith(NewlyKept(s), id)
       IN  (n # 0 /\ l # 0) =>
             /\ slots'[n].resolved = slots[n].resolved + 1
             /\ slots'[n].got = l
             /\ ~slots'[n].timer
             /\ pendingRequests'[s][id] = 0
     /\ \A m \in DOMAIN slots :
          slots'[m].got # slots[m].got =>
            /\ pendingRequests[slots[m].sid][slots[m].id] = m
            /\ slots'[m].got = FirstWith(NewlyKept(slots[m].sid), slots[m].id)]_vars

DistinctIds == \A n, m \in DOMAIN slots : n # m => slots[n].id # slots[m].id

\* C13 witness: two requests with distinct ids, answered in the reverse order,
\* both resolved with their own responses and the Map empty.
C13_Witness ==
  /\ Len(slots) = 2
  /\ DistinctIds
  /\ slots[1].resolved = 1 /\ slots[2].resolved = 1
  /\ slots[2].got # 0 /\ slots[2].got < slots[1].got
  /\ \A s \in SessionIds : InMap(s) = {}

C15_DrainFifoNoDuplicate ==
  /\ [](\A s \in SessionIds :
          /\ \A i, j \in DOMAIN Kept(s) : i < j => Kept(s)[i].n < Kept(s)[j].n)
  /\ [][\A s \in SessionIds :
          delivered'[s] # delivered[s] =>
            /\ messageQueue[s] # <<>>
            /\ delivered'[s] = delivered[s] \o messageQueue[s]
            /\ messageQueue'[s] = <<>>]_vars

\* C15 witness: two lines were enqueued and drained; both are written, in order.
C15_Witness ==
  \E s \in SessionIds :
    /\ Len(delivered[s]) = 2
    /\ messageQueue[s] = <<>>
    /\ delivered[s][1].n = 1 /\ delivered[s][2].n = 2

\* C16: the step in which the stream of a session closes sends kill to the
\* session's process and removes the session from the table; so a session whose
\* stream is closed is not in the table, and a process that still runs without
\* its session in the table has been sent kill.
C16_StreamCloseKillsProcess ==
  /\ [][\A s \in SessionIds :
          (stream[s] = "open" /\ stream'[s] = "closed") =>
            /\ kills'[s] = kills[s] + 1
            /\ s \notin sessions'
            /\ (proc[s].state = "running" => proc'[s].killed)]_vars
  /\ [](\A s \in SessionIds :
          /\ stream[s] = "closed" => s \notin sessions
          /\ (proc[s].state = "running" /\ s \notin sessions) =>
                proc[s].killed /\ kills[s] >= 1)

\* C16 witness: the stream was closed while the process was running; the process
\* has been sent kill, has not exited yet, and its session is gone.
C16_Witness ==
  \E s \in SessionIds :
    /\ stream[s] = "closed"
    /\ proc[s].state = "running"
    /\ proc[s].killed
    /\ kills[s] = 1
    /\ s \notin sessions

\* C17: when the process of a session has exited, the stream of the session is
\* closed (the response ended, the drain and keep-alive intervals cleared).
C17_ExitClosesStream ==
  \A s \in SessionIds : proc[s].state = "exited" => stream[s] = "closed"

\* C18: once the teardown of a session has begun (its process exited or failed,
\* or its stream closed), no line that stdout delivers afterwards is written to
\* the client.
C18_NothingDeliveredAfterTeardown ==
  \A s \in SessionIds :
    tornDown[s] => \A k \in DOMAIN delivered[s] : delivered[s][k].n <= tornAt[s]

\* C24: a GET /sse whose command is not in the allow list is answered 403, and
\* the step spawns no process, creates no session and opens no stream.
C24_DisallowedCommandRefused ==
  [][\A s \in SessionIds, ok \in BOOLEAN :
       \A command \in Commands \ (AllowedCommands \cup {NoCommand}) :
         GetSse(s, command, ok) =>
           /\ httpStatus' = 403
           /\ UNCHANGED <<sessions, proc, stream, kills, pendingRequests>>]_vars

\* C24 witness: a request was refused with 403 and there is neither a process nor
\* a session.
C24_Witness ==
  /\ httpStatus = 403
  /\ sessions = {}
  /\ \A s \in SessionIds : proc[s].state = "none" /\ stream[s] = "none"

\* The process of session s is dead: it exited, it was never started because
\* the spawn failed, or it was killed.
Dead(s) == proc[s].state \in {"exited", "failed"} \/ proc[s].killed

\* C25: a POST naming a session id that is not in the sessions Map is answered
\* 404, a POST naming a session of the Map whose process is dead is answered 503,
\* and in neither case is anything written to the stdin of a process.
C25_UnknownOrDeadRefused ==
  [][\A s \in SessionIds, id \in MsgIds \cup {NoId} :
       PostMessage(s, id) =>
         /\ s \notin sessions => httpStatus' = 404 /\ UNCHANGED stdinWrites
         /\ (s \in sessions /\ Dead(s)) => httpStatus' = 503 /\ UNCHANGED stdinWrites]_vars

\* C26: when the spawn of the process fails, the session-open request fails: no
\* stream is opened for it and no session is registered under an id.
C26_FailedSpawnOpensNothing ==
  \A s \in SessionIds :
    proc[s].state = "failed" => stream[s] = "none" /\ s \notin sessions

\* C27: when the process of a session crashes, the handling of the crash rejects
\* every request of the session that is outstanding at that moment, once each,
\* and then closes the client's stream.
C27_CrashRejectsThenCloses ==
  [][\A s \in SessionIds :
       (proc[s].state = "running" /\ proc'[s].state = "exited") =>
         /\ \A n \in InMap(s) : slots'[n].rejected = slots[n].rejected + 1
         /\ stream'[s] = "closed"]_vars

\* C28: every session the bridge has open is registered in the ConnectionPool:
\* the pool holds at least as many sessions as the sessions Map of the bridge.
C28_OpenSessionsRegistered ==
  Cardinality(sessions) <= PoolSize(pool)

\* C37: the timeout of a request removes no slot but its own: a step in which
\* the timer of slot n fires leaves every other slot that was in the Map of the
\* session in the Map, a slot registered later under the same id included.
C37_TimeoutRemovesOwnSlotOnly ==
  [][\A n \in DOMAIN slots :
       (slots[n].timer /\ slots'[n].timedOut = slots[n].timedOut + 1) =>
         InMap(slots[n].sid) \ {n} \subseteq InMap(slots[n].sid)']_vars

(***************************************************************************)
(* Claims about two sessions, checked under SpecIsolation.                 *)
(***************************************************************************)

\* What belongs to session s: its process, its pending requests with their
\* slots, and its outbound queue.
PerSession(s) ==
  <<proc[s], pendingRequests[s], messageQueue[s],
    {<<n, slots[n]>> : n \in {m \in DOMAIN slots : slots[m].sid = s}}>>

\* C29: sessions are isolated: no step changes the process, the pending requests
\* or the outbound queue of two sessions, so whatever happens to one session
\* leaves every other session as it was.
C29_SessionsIsolated ==
  [][\A s \in AllSessionIds, t \in AllSessionIds :
       (s # t /\ PerSession(s)' # PerSession(s)) => PerSession(t)' = PerSession(t)]_vars

\* The well-formed JSON lines the process of session s has written, in order,
\* each with its number; the line null is well-formed JSON.
RECURSIVE WellFormed(_, _)
WellFormed(s, k) ==
  IF k = 0 THEN <<>>
  ELSE WellFormed(s, k - 1) \o
         (IF written[k].sid = s /\ written[k].id # Junk
            THEN <<[id |-> written[k].id, n |-> k]>> ELSE <<>>)

\* C36: the lines a session has put on its outbound queue, those already written
\* to the client followed by those still queued, are exactly the well-formed
\* JSON lines its process has written, each once and in the order of arrival,
\* whether or not a line answered a pending request.
C36_EveryLineQueuedOnce ==
  \A s \in AllSessionIds : Kept(s) = WellFormed(s, Len(written))

(***************************************************************************)
(* Claims about the stdout reader, checked under SpecReader.               *)
(***************************************************************************)

\* C33: the messages parsed from stdout depend on the bytes written only, not on
\* their division into chunks: when all bytes have been delivered, in whatever
\* chunks, the messages parsed are those of the complete lines of the bytes, each
\* parsed once, and buffer holds the unterminated fragment after the last newline.
C33_ChunkingDoesNotMatter ==
  unread = <<>> =>
    /\ parsed = ParseLines(Front(Split(ChunkToString(stdoutBytes))))
    /\ buffer = Last(Split(ChunkToString(stdoutBytes)))

(***************************************************************************)
(* Claims about the ConnectionPool, checked under SpecPool.                *)
(***************************************************************************)

\* The step is a sweep tick that found stale sessions.
SweepStep == \E id \in PoolIds : cleaning'[id]["sweep"] > cleaning[id]["sweep"]

\* C19: a sweep tick invokes the cleanup of every registered session whose time
\* since lastActivity exceeds the session timeout, and of no other: a session
\* whose activity was refreshed within the timeout before the tick is neither
\* cleaned up nor removed by it. When the cleanup a sweep waits for settles,
\* resolved or rejected, the session is no longer registered.
C19_SweepEvictsStaleOnly ==
  /\ [][SweepStep =>
          \A id \in PoolIds :
            IF pool[id].present /\ poolNow - pool[id].lastActivity > SessionTimeout
              THEN /\ pool'[id].cleanups = pool[id].cleanups + 1
                   /\ cleaning'[id]["sweep"] = cleaning[id]["sweep"] + 1
              ELSE /\ pool'[id] = pool[id]
                   /\ cleaning'[id] = cleaning[id]]_vars
  /\ [][\A id \in PoolIds :
          cleaning'[id]["sweep"] < cleaning[id]["sweep"] => ~pool'[id].present]_vars

\* C19 witness: a sweep tick found one session stale and invoked its cleanup,
\* while another, last touched exactly the timeout ago, was left alone.
C19_Witness ==
  \E a, b \in PoolIds :
    /\ a # b
    /\ cleaning[a]["sweep"] = 1 /\ pool[a].present /\ pool[a].cleanups = 1
    /\ poolNow - pool[a].lastActivity > SessionTimeout
    /\ pool[b].present /\ pool[b].cleanups = 0
    /\ poolNow - pool[b].lastActivity = SessionTimeout
    /\ cleaning[b] = [c \in Callers |-> 0]

\* C30: cleanupSession(id) of a registered session invokes the cleanup of the
\* session; when the cleanup settles the session is removed from the pool,
\* whether it resolved or rejected, and the call returns true exactly when it
\* resolved. cleanupSession of an unknown id returns false and changes neither
\* the pool nor its statistics, and invokes no cleanup.
C30_CleanupSessionContract ==
  [][\A id \in PoolIds :
       /\ CleanupSessionCall(id) =>
            IF pool[id].present
              THEN /\ pool'[id].cleanups = pool[id].cleanups + 1
                   /\ cleaning'[id]["client"] = cleaning[id]["client"] + 1
              ELSE /\ returned' = [id |-> id, value |-> FALSE]
                   /\ UNCHANGED <<pool, poolStats, cleaning>>
       /\ \A ok \in BOOLEAN :
            CleanupSettles(id, "client", ok) =>
              /\ ~pool'[id].present
              /\ returned' = [id |-> id, value |-> ok]]_vars

\* C30 witness: the cleanup of the only session ever registered resolved; the
\* call returned true and the session is gone.
C30_Witness ==
  \E id \in PoolIds :
    /\ returned = [id |-> id, value |-> TRUE]
    /\ ~pool[id].present
    /\ poolStats.totalSessionsCreated = 1
    /\ poolStats.totalSessionsClosed = 1
    /\ Waiting = 0

\* The step in which shutdown() is called, and the step in which it returns.
ShutdownCalled == poolShutdown.pc = "idle" /\ poolShutdown'.pc # "idle"
ShutdownReturns == poolShutdown.pc # "returned" /\ poolShutdown'.pc = "returned"

\* What C31 says of the call and of the counts: the call invokes the cleanup of
\* every session then registered, once, and of no other; a cleanup that resolves
\* adds one to successful and one that rejects adds one to failed; at the return
\* successful + failed = total, the number of sessions registered at the call.
ShutdownCleansAndCounts ==
  /\ ShutdownCalled =>
       /\ poolShutdown'.total = PoolSize(pool)
       /\ \A id \in PoolIds :
            IF pool[id].present
              THEN /\ pool'[id].cleanups = pool[id].cleanups + 1
                   /\ cleaning'[id]["shutdown"] = 1
              ELSE pool'[id] = pool[id] /\ cleaning'[id] = cleaning[id]
  /\ \A id \in PoolIds : cleaning'[id]["shutdown"] <= 1
  /\ \A id \in PoolIds, ok \in BOOLEAN :
       CleanupSettles(id, "shutdown", ok) =>
         /\ poolShutdown'.successful = poolShutdown.successful + (IF ok THEN 1 ELSE 0)
         /\ poolShutdown'.failed = poolShutdown.failed + (IF ok THEN 0 ELSE 1)
  /\ ShutdownReturns =>
       /\ poolShutdown'.successful + poolShutdown'.failed = poolShutdown'.total
       /\ \A id \in PoolIds : cleaning'[id]["shutdown"] = 0

\* C31: shutdown() invokes the cleanup of every session registered at the call
\* exactly once, counts the cleanups that resolved and those that rejected, and
\* when it returns successful + failed = total and the pool is empty.
C31_ShutdownEmptiesPool ==
  [][/\ ShutdownCleansAndCounts
     /\ ShutdownReturns => PoolSize(pool') = 0]_vars

\* C32: in every state getStats reports currentSessions equal to the number of
\* registered sessions and to the sum of sessionsByType; and maxConcurrentSessions
\* is the largest number of sessions ever registered at one time: it is 0 for the
\* new pool, and after every step it is the larger of its value before the step
\* and the number of sessions registered after it.
C32_StatsFollowTheMap ==
  /\ [](/\ GetStats.currentSessions = PoolSize(pool)
        /\ GetStats.currentSessions =
             Sum(GetStats.sessionsByType, DOMAIN GetStats.sessionsByType)
        /\ GetStats.maxConcurrentSessions >= PoolSize(pool))
  /\ [][GetStats'.maxConcurrentSessions =
          Max(GetStats.maxConcurrentSessions, PoolSize(pool'))]_vars

\* C32 witness: two sessions were registered together and one of them has been
\* removed since.
C32_Witness ==
  /\ GetStats.maxConcurrentSessions = 2
  /\ GetStats.currentSessions = 1
  /\ GetStats.totalSessionsClosed = 1

\* C34: the cleanup of a registered session has been invoked at most once,
\* whatever sweep ticks, cleanupSession calls and shutdown() have been interleaved.
C34_CleanupAtMostOnce ==
  \A id \in PoolIds : pool[id].present => pool[id].cleanups <= 1

\* C35: in every state totalSessionsCreated - totalSessionsClosed is the number
\* of sessions registered.
C35_CreatedMinusClosedIsCurrent ==
  poolStats.totalSessionsCreated - poolStats.totalSessionsClosed = PoolSize(pool)

(***************************************************************************)
(* Claims about the shutdown, checked under SpecShutdown.                  *)
(***************************************************************************)

\* C20: shutdown completes although the cleanup of a session never resolves: once
\* the deadline timer has fired, process.exit has been called.
C20_ExitsByDeadline ==
  deadlineTimer = "fired" => exitStatus # -1

\* C21: the coordinator runs at most one shutdown. Whatever signals and fatal
\* errors arrive, the cleanup callback is invoked at most once, and a trigger
\* that arrives while a shutdown is in progress changes nothing: the flag, the
\* server, the timer, the connections, the callback's position and its sessions
\* stay as they were.
C21_AtMostOneShutdown ==
  [][/\ cleanupInvocations' <= 1
     /\ (isShuttingDown /\ triggers' # triggers) =>
          UNCHANGED <<isShuttingDown, listening, deadlineTimer, connections, destroyed,
                      gwSessions, cleanupPc, cleanupInvocations, firstCause,
                      exitStatus>>]_vars

\* C21 witness: a second and a third trigger arrived while the callback of the
\* first was still waiting for a session to close; the callback ran once.
C21_Witness ==
  /\ triggers = 3
  /\ cleanupInvocations = 1
  /\ cleanupPc.i \in 1..Len(gwSessions)
  /\ exitStatus = -1

FatalCauses == {"uncaughtException", "unhandledRejection"}

\* C22: when the process has exited, its status is 1 if the shutdown was started
\* by a fatal error (uncaught exception, unhandled rejection) and 0 if it was
\* started by a termination signal.
C22_ExitStatusFollowsCause ==
  exitStatus # -1 => exitStatus = (IF firstCause \in FatalCauses THEN 1 ELSE 0)

\* C23: no child process outlives the shutdown: once the deadline timer has
\* fired, every child process of a bridge session has been sent SIGTERM and has
\* exited or been killed.
C23_NoChildOutlivesDeadline ==
  deadlineTimer = "fired" =>
    \A i \in 1..Len(gwSessions) :
      gwSessions[i].kind = "bridge" =>
        gwSessions[i].sigterms > 0 /\ ~gwSessions[i].alive

(***************************************************************************)
(* Claims about retry, checked under SpecRetry.                            *)
(***************************************************************************)

RetryDone == rPc \in {"returned", "threw"}

\* Attempt i ended with fn itself throwing (not with the timer of withTimeout).
OpFailed(i) == rHist[i].type = "err"

\* The retry predicate accepts the error (it is consulted for Error objects only).
Accepted(e) == IsError(e) => e.msg \in rOpts.retryOn

\* C8, as stated: an operation that fails on its first k-1 attempts and succeeds
\* on attempt k <= maxAttempts, every error accepted by the retry predicate, makes
\* retry return that value after exactly k invocations. In terms of a finished
\* call: after failures that were all retryable and a success the call returned
\* that value with one invocation per attempt, and the call never ends on a
\* retryable failure before attempt maxAttempts.
C8_Original_SucceedsOnAttemptK ==
  RetryDone =>
    LET n == Len(rHist) IN
    /\ (rHist[n].type = "ok" /\ \A i \in 1..(n - 1) : OpFailed(i) /\ Accepted(rHist[i].error)) =>
          /\ rPc = "returned"
          /\ rOutcome = [kind |-> "value", value |-> rHist[n].value]
          /\ rInvocations = n
          /\ n <= rOpts.maxAttempts
    /\ ~(n < rOpts.maxAttempts /\ \A i \in 1..n : OpFailed(i) /\ Accepted(rHist[i].error))

\* An error that retry does retry: accepted by the predicate and not a TimeoutError.
Retried(e) == Accepted(e) /\ e.kind # "TimeoutError"

\* C8, amended: the same, for failures that are accepted by the retry predicate
\* and are not TimeoutErrors (a TimeoutError thrown by the operation itself ends
\* the call at once, line 141).
C8_SucceedsOnAttemptK ==
  RetryDone =>
    LET n == Len(rHist) IN
    /\ (rHist[n].type = "ok" /\ \A i \in 1..(n - 1) : OpFailed(i) /\ Retried(rHist[i].error)) =>
          /\ rPc = "returned"
          /\ rOutcome = [kind |-> "value", value |-> rHist[n].value]
          /\ rInvocations = n
          /\ n <= rOpts.maxAttempts
    /\ ~(n < rOpts.maxAttempts /\ \A i \in 1..n : OpFailed(i) /\ Retried(rHist[i].error))

\* C8 witness: two retried failures, then a success on the third attempt.
C8_Witness ==
  /\ rPc = "returned"
  /\ Len(rHist) >= 3
  /\ rInvocations = Len(rHist)
  /\ \A i \in 1..(Len(rHist) - 1) : OpFailed(i)
  /\ rOutcome.value = rHist[Len(rHist)].value

\* C9, as stated: an operation that fails with an error the retry predicate
\* accepts on every attempt is invoked exactly maxAttempts times, and retry then
\* rejects with the RetryableError "failed after N attempts" whose cause is the
\* error of the last attempt.
C9_Original_ExhaustsAttempts ==
  (RetryDone /\ \A i \in 1..Len(rHist) :
                  OpFailed(i) /\ IsError(rHist[i].error) /\ RetryOn(rHist[i].error)) =>
    /\ rPc = "threw"
    /\ rInvocations = rOpts.maxAttempts
    /\ Len(rHist) = rOpts.maxAttempts
    /\ rOutcome.kind = "RetryableError"
    /\ rOutcome.attempts = rOpts.maxAttempts
    /\ rOutcome.cause = rHist[Len(rHist)].error

\* C9, amended: the same, for Error objects that are not TimeoutErrors.
C9_ExhaustsAttempts ==
  (RetryDone /\ \A i \in 1..Len(rHist) :
                  OpFailed(i) /\ rHist[i].error.kind = "Error" /\ RetryOn(rHist[i].error)) =>
    /\ rPc = "threw"
    /\ rInvocations = rOpts.maxAttempts
    /\ Len(rHist) = rOpts.maxAttempts
    /\ rOutcome.kind = "RetryableError"
    /\ rOutcome.attempts = rOpts.maxAttempts
    /\ rOutcome.cause = rHist[Len(rHist)].error

\* C9 witness: three or more attempts all failed with accepted errors, the last
\* with another error than the first, and the aggregate error wraps the last.
C9_Witness ==
  /\ rPc = "threw"
  /\ rOutcome.kind = "RetryableError"
  /\ Len(rHist) >= 3
  /\ rInvocations = rOpts.maxAttempts
  /\ \A i \in 1..Len(rHist) : OpFailed(i) /\ rHist[i].error.kind = "Error"
  /\ rHist[1].error # rHist[Len(rHist)].error
  /\ rOutcome.cause = rHist[Len(rHist)].error

\* C10: when the retry predicate returns false for the error of an attempt, retry
\* makes no further attempt and the caller gets that same error, unwrapped.
C10_RejectedErrorSurfacesUnwrapped ==
  (RetryDone /\ OpFailed(Len(rHist))
     /\ IsError(rHist[Len(rHist)].error) /\ ~RetryOn(rHist[Len(rHist)].error)) =>
    /\ rPc = "threw"
    /\ rInvocations = Len(rHist)
    /\ rOutcome = rHist[Len(rHist)].error

\* C11: with a timeout configured, the whole call of retry, attempts and backoff
\* delays together, races against one timer: the call is never still running, and
\* never ends, later than timeout after it was called, and a call that ends when
\* the timeout has run out ends with a TimeoutError.
C11_WholeRunWithinTimeout ==
  rOpts.timeout > 0 =>
    /\ rElapsed <= rOpts.timeout
    /\ (RetryDone /\ rElapsed >= rOpts.timeout) =>
          rPc = "threw" /\ rOutcome.kind = "TimeoutError"

\* C12: once the timer of withTimeout has fired, the caller gets the TimeoutError
\* of that timer, never the aggregate RetryableError, and the attempt the timer
\* cut short is the last invocation of the operation.
C12_TimeoutSurfacesAndStops ==
  \A i \in DOMAIN rHist :
    rHist[i].type = "timeout" =>
      /\ i = Len(rHist)
      /\ rPc = "threw"
      /\ rOutcome = TimerError
      /\ rOutcome.kind = "TimeoutError"
      /\ rInvocations = i

\* C12 witness: two attempts failed and were retried, the timer fired on the
\* third, and the call threw.
C12_Witness ==
  /\ Len(rHist) = 3
  /\ OpFailed(1) /\ OpFailed(2)
  /\ rHist[3].type = "timeout"
  /\ rPc = "threw"
  /\ rOpts.maxAttempts = 3

\* C40: retry invokes the operation at most maxAttempts times; every invocation
\* but the first follows a backoff delay that has elapsed in full, one delay for
\* each pair of consecutive attempts; and the step that ends retry with an error
\* starts no delay: when retry has thrown, the delays it has waited are one fewer
\* than the attempts it has made.
C40_BoundedAttemptsOneDelayBetween ==
  /\ [](/\ rInvocations <= rOpts.maxAttempts
        /\ Len(rDelays) = IF rPc = "backoff" THEN rInvocations
                          ELSE IF rPc = "ready" THEN 0 ELSE rInvocations - 1)
  /\ [][/\ (rInvocations >= 1 /\ rInvocations' = rInvocations + 1) =>
            /\ rPc = "backoff"
            /\ rDelays' = rDelays
            /\ rElapsed' = rElapsed + rDelays[Len(rDelays)]
        /\ (rPc # "threw" /\ rPc' = "threw") => rDelays' = rDelays]_vars

\* C40 witness: with jitter, three attempts have failed and retry has thrown the
\* aggregate error after two delays, the second longer than the first; the time
\* that has passed is that of the three attempts and the two delays.
C40_Witness ==
  /\ rPc = "threw"
  /\ rOpts.jitter
  /\ rOpts.maxAttempts = 3
  /\ rInvocations = 3
  /\ rOutcome.kind = "RetryableError"
  /\ Len(rDelays) = 2
  /\ rDelays[1] < rDelays[2]
  /\ rElapsed = 3 * OpDuration + rDelays[1] + rDelays[2]

(***************************************************************************)
(* Claims about the CircuitBreaker, checked under SpecBreaker.             *)
(***************************************************************************)

Starts(c) == calls[c].pc # "running" /\ calls'[c] # calls[c]
Succeeds(c) == calls[c].pc = "running" /\ calls'[c].pc = "returned"
Fails(c) == calls[c].pc = "running" /\ calls'[c].pc = "threw"

\* C3: execute fails with CircuitBreakerError, without invoking the operation,
\* exactly when the breaker is OPEN and no more than resetTimeout has passed since
\* the last recorded failure; in every other case the operation is invoked, and
\* the first call after resetTimeout has passed runs as the HALF_OPEN probe.
C3_GateRejectsExactlyWhenOpenAndNotElapsed ==
  [][\A c \in CallIds : Starts(c) =>
       LET blocked == cbState = "OPEN" /\ now - lastFailureTime <= resetTimeout
       IN  /\ (calls'[c].pc = "rejected") <=> blocked
           /\ blocked => calls'[c].invoked = 0 /\ cbState' = "OPEN"
           /\ ~blocked => calls'[c].pc = "running" /\ calls'[c].invoked = 1
           /\ (cbState = "OPEN" /\ ~blocked) =>
                 cbState' = "HALF_OPEN" /\ calls'[c].probe
           /\ cbState # "OPEN" => cbState' = cbState]_vars

\* C3 witness: one call was rejected by the open breaker and, later, another call
\* is in flight as the HALF_OPEN probe.
C3_Witness ==
  \E c, d \in CallIds :
    /\ calls[c].pc = "rejected" /\ calls[c].invoked = 0
    /\ calls[d].pc = "running" /\ calls[d].probe
    /\ cbState = "HALF_OPEN"

\* C4: from CLOSED with a failure count of 0, the failure that makes
\* failureThreshold consecutive failures opens the breaker, and every earlier
\* failure leaves it CLOSED.
C4_OpensAtThresholdFailures ==
  [][\A c \in CallIds : (Fails(c) /\ cbState = "CLOSED") =>
       /\ consecFail' = consecFail + 1
       /\ cbState' = IF consecFail' = failureThreshold THEN "OPEN" ELSE "CLOSED"
       /\ consecFail' <= failureThreshold]_vars

\* C4 witness: a breaker with a threshold of at least 2 was opened from CLOSED by
\* its failureThreshold-th consecutive failure.
C4_Witness ==
  /\ cbState = "OPEN"
  /\ cbPrev.state = "CLOSED"
  /\ failureThreshold >= 2
  /\ consecFail = failureThreshold

\* C5: a success in HALF_OPEN increments the half-open success counter; the
\* breaker moves to CLOSED exactly when the counter reaches
\* halfOpenSuccessThreshold, and CLOSED is entered with both counters at 0.
C5_HalfOpenSuccessesClose ==
  [][/\ \A c \in CallIds : (Succeeds(c) /\ cbState = "HALF_OPEN") =>
          IF consecutiveSuccesses + 1 = halfOpenSuccessThreshold
            THEN cbState' = "CLOSED"
            ELSE /\ cbState' = "HALF_OPEN"
                 /\ consecutiveSuccesses' = consecutiveSuccesses + 1
                 /\ consecutiveSuccesses' < halfOpenSuccessThreshold
     /\ (cbState # "CLOSED" /\ cbState' = "CLOSED") =>
          /\ failures' = 0
          /\ consecutiveSuccesses' = 0
          /\ cbState = "HALF_OPEN"
          /\ \E c \in CallIds : Succeeds(c)]_vars

\* C5 witness: a breaker that needs at least 2 half-open successes has just been
\* closed by the last of them.
C5_Witness ==
  /\ cbState = "CLOSED"
  /\ cbPrev.state = "HALF_OPEN"
  /\ halfOpenSuccessThreshold >= 2
  /\ cbPrev.successes = halfOpenSuccessThreshold - 1
  /\ failures = 0
  /\ consecutiveSuccesses = 0

\* C6: one failure recorded in HALF_OPEN moves the breaker to OPEN, whatever the
\* failure count and the half-open successes so far, and resets the half-open
\* success counter to 0.
C6_HalfOpenFailureReopens ==
  [][\A c \in CallIds : (Fails(c) /\ cbState = "HALF_OPEN") =>
       cbState' = "OPEN" /\ consecutiveSuccesses' = 0]_vars

\* C6 witness: the breaker was reopened from HALF_OPEN after a half-open success
\* had been counted and with a failure count below the threshold.
C6_Witness ==
  /\ cbState = "OPEN"
  /\ cbPrev.state = "HALF_OPEN"
  /\ cbPrev.successes >= 1
  /\ cbPrev.failures + 1 < failureThreshold
  /\ consecutiveSuccesses = 0

AllowedTransitions ==
  { <<"CLOSED", "OPEN">>, <<"OPEN", "HALF_OPEN">>,
    <<"HALF_OPEN", "CLOSED">>, <<"HALF_OPEN", "OPEN">> }

\* C7: the state changes only along CLOSED->OPEN, OPEN->HALF_OPEN,
\* HALF_OPEN->CLOSED and HALF_OPEN->OPEN, also with several calls in flight.
C7_OnlyStateMachineTransitions ==
  [][cbState' # cbState => <<cbState, cbState'>> \in AllowedTransitions]_vars

\* C7 witness: a call that started before the breaker opened completes with
\* success while the breaker is OPEN, and the breaker stays OPEN.
C7_Witness ==
  \E c, d \in CallIds :
    /\ calls[c].pc = "returned" /\ ~calls[c].probe
    /\ calls[d].pc = "threw"
    /\ cbState = "OPEN"
    /\ cbPrev.state = "CLOSED"
    /\ failures = 0

\* C38: whatever the order in which the calls in flight record their outcomes, a
\* CLOSED breaker has a failure count strictly below failureThreshold.
C38_ClosedBelowThreshold ==
  cbState = "CLOSED" => failures < failureThreshold

\* C38 witness: the breaker was closed again from HALF_OPEN and, CLOSED, has since
\* recorded a failure that leaves it one short of the threshold, with another
\* call still in flight.
C38_Witness ==
  \E c, d \in CallIds :
    /\ cbState = "CLOSED"
    /\ cbPrev.state = "HALF_OPEN"
    /\ failures >= 1
    /\ failures = failureThreshold - 1
    /\ calls[c].pc = "threw"
    /\ calls[d].pc = "running"

\* C39: a call that succeeds while the breaker is CLOSED sets the failure count
\* to 0 and leaves the breaker CLOSED, and a step that opens the breaker from
\* CLOSED is a failure that makes at least failureThreshold failures recorded
\* since the last success.
C39_SuccessResetsWhileClosed ==
  [][/\ \A c \in CallIds : (Succeeds(c) /\ cbState = "CLOSED") =>
          failures' = 0 /\ cbState' = "CLOSED"
     /\ (cbState = "CLOSED" /\ cbState' = "OPEN") =>
          /\ \E c \in CallIds : Fails(c)
          /\ consecFail' >= failureThreshold]_vars

\* C39 witness: the breaker has never left CLOSED, one call has failed and
\* another has succeeded after it, and the count is back at 0 although a failure
\* was recorded.
C39_Witness ==
  \E c, d \in CallIds :
    /\ cbState = "CLOSED"
    /\ cbPrev.state = "CLOSED"
    /\ failureThreshold >= 2
    /\ calls[c].pc = "threw"
    /\ calls[d].pc = "returned"
    /\ failures = 0

====
